---- MODULE Spec2Model ----
(***************************************************************************)
(* Model of compressed_image_transport: CompressedPublisher::publish and   *)
(* CompressedSubscriber::internalCallback, with their reconfigure          *)
(* callbacks.  Strings are TLA+ strings (sequences of characters), pixel   *)
(* buffers are sequences of channel tuples, and the codec libraries are    *)
(* modelled by what the calls made here rely on.                           *)
(***************************************************************************)
EXTENDS Integers, Sequences, FiniteSets, TLC

VARIABLES config_,          \* CompressedPublisher::config_
          imdecode_flag_,   \* CompressedSubscriber::imdecode_flag_
          pub,              \* the most recent publish() call
          sub,              \* the most recent internalCallback() call
          alive,            \* FALSE once an exception or a fault left a handler
          pc,               \* position of a publish() call in progress
          frame,            \* the message of the publish() call in progress
          reads,            \* what that call has read from config_ so far
          ver               \* number of configCb calls on the other thread

vars == <<config_, imdecode_flag_, pub, sub, alive, pc, frame, reads, ver>>

-----------------------------------------------------------------------------
(* Bounds of the model *)

\* widest frame, in pixels (frames have one row)
MaxWidth == 1

\* most reconfigurations followed while a publish() call is in progress
MaxVer == 2

-----------------------------------------------------------------------------
(* std::string *)

\* std::string::npos, size_t(-1): the representative of 2^64 - 1 modulo 2^64
npos == -1

Min(a, b) == IF a < b THEN a ELSE b

\* s.find(t): position (from 0) of the first occurrence of t, or npos
find(s, t) ==
  LET at(i) == SubSeq(s, i, i + Len(t) - 1) = t
      hits  == {i \in 1..(Len(s) - Len(t) + 1) : at(i)}
  IN IF hits = {} THEN npos
     ELSE (CHOOSE i \in hits : \A j \in hits : i <= j) - 1

\* s.substr(pos, count): throws std::out_of_range when pos > size(); pos and
\* count are size_t, so a negative representative is a value above any size
substr(s, pos, count) ==
  IF pos < 0 \/ pos > Len(s)
  THEN [threw |-> TRUE, str |-> ""]
  ELSE LET n == IF count < 0 THEN Len(s) - pos ELSE Min(count, Len(s) - pos)
       IN [threw |-> FALSE, str |-> SubSeq(s, pos + 1, pos + n)]

-----------------------------------------------------------------------------
(* sensor_msgs::image_encodings *)

ColorEncodings ==
  {"rgb8", "bgr8", "rgba8", "bgra8", "rgb16", "bgr16", "rgba16", "bgra16"}

Encodings == ColorEncodings \cup {"mono8", "mono16", "8UC2", "32FC1"}

isColor(e) == e \in ColorEncodings

bitDepth(e) ==
  IF e \in {"mono8", "rgb8", "bgr8", "rgba8", "bgra8", "8UC2"} THEN 8
  ELSE IF e \in {"mono16", "rgb16", "bgr16", "rgba16", "bgra16"} THEN 16
  ELSE 32

numChannels(e) ==
  IF e \in {"mono8", "mono16", "32FC1"} THEN 1
  ELSE IF e = "8UC2" THEN 2
  ELSE IF e \in {"rgb8", "bgr8", "rgb16", "bgr16"} THEN 3
  ELSE 4

\* channel order of a colour encoding
RedFirst(e) == e \in {"rgb8", "rgba8", "rgb16", "rgba16"}

-----------------------------------------------------------------------------
(* cv::Mat and sensor_msgs::Image *)

\* largest sample of a depth (32-bit samples are floats, 0.0 and 1.0 here)
MaxVal(depth) == IF depth = 8 THEN 255 ELSE IF depth = 16 THEN 65535 ELSE 1

Samples(depth) == {0, MaxVal(depth)}

\* a default-constructed cv::Mat
EmptyMat == [channels |-> 1, depth |-> 8, rows |-> 0, cols |-> 0, pix |-> <<>>]

empty(mat) == mat.rows = 0 \/ mat.cols = 0

\* the frames the frame source delivers: one row, tightly packed
Frames ==
  UNION {
    UNION {
      { [encoding |-> e, width |-> w, height |-> 1,
         step |-> w * numChannels(e) * (bitDepth(e) \div 8), data |-> d] :
          d \in [1..w -> [1..numChannels(e) -> Samples(bitDepth(e))]] }
      : w \in 0..MaxWidth }
    : e \in Encodings }

NoFrame == [encoding |-> "", width |-> 0, height |-> 0, step |-> 0, data |-> <<>>]

\* the bytes of one sample in memory (little endian; 1.0f is 00 00 80 3F)
SampleBytes(v, depth) ==
  IF depth = 8 THEN <<v>>
  ELSE IF depth = 16 THEN <<v % 256, v \div 256>>
  ELSE IF v = 0 THEN <<0, 0, 0, 0>> ELSE <<0, 0, 128, 63>>

RECURSIVE Flatten(_)
Flatten(ss) == IF ss = <<>> THEN <<>> ELSE Head(ss) \o Flatten(Tail(ss))

\* mat.data: the pixel buffer of a matrix as bytes
MatBytes(mat) ==
  Flatten([i \in 1..Len(mat.pix) |->
            Flatten([c \in 1..mat.channels |-> SampleBytes(mat.pix[i][c], mat.depth)])])

-----------------------------------------------------------------------------
(* cv_bridge and OpenCV, as far as publish() and internalCallback() use them *)

\* a JPEG sample after the lossy codec: some value, not known to the model
Unspecified == 0 - 1

\* cv_bridge's depth rescaling (convertTo with 255/65535, or 65535/255)
Rescale(v, from, to) ==
  IF from = to THEN v
  ELSE IF from = 16 /\ to = 8 THEN (v * 255 + 32767) \div 65535
  ELSE v * 257

matFromImage(message) ==
  [channels |-> numChannels(message.encoding), depth |-> bitDepth(message.encoding),
   rows |-> message.height, cols |-> message.width, pix |-> message.data]

\* cv_bridge::toCvShare(message, tracked_object, encoding): shares the buffer
\* when no encoding is asked for or it is the source's own, converts
\* otherwise; converting an empty image makes cv::cvtColor throw
toCvShare(message, encoding) ==
  LET src == matFromImage(message)
      e   == message.encoding
      to  == bitDepth(encoding)
      bgr(p) == IF RedFirst(e) THEN <<p[3], p[2], p[1]>> ELSE <<p[1], p[2], p[3]>>
      conv(p) == [c \in 1..3 |-> Rescale(bgr(p)[c], src.depth, to)]
  IN IF encoding = "" \/ encoding = e
     THEN [threw |-> FALSE, what |-> "", image |-> src]
     ELSE IF empty(src)
     THEN [threw |-> TRUE, what |-> "cv::Exception", image |-> EmptyMat]
     ELSE [threw |-> FALSE, what |-> "",
           image |-> [channels |-> 3, depth |-> to, rows |-> src.rows, cols |-> src.cols,
                      pix |-> [i \in 1..Len(src.pix) |-> conv(src.pix[i])]]]

\* the contents of a std::vector<uchar> of compressed data
Data(container, mat, desc, bytes) ==
  [container |-> container, mat |-> mat, desc |-> desc, bytes |-> bytes]

NoDesc == [width |-> 0, height |-> 0, channels |-> 0]

EmptyData == Data("", EmptyMat, NoDesc, <<>>)

\* cv::imencode(ext, image, buf, params): asserts 1, 3 or 4 channels and a
\* non-empty image (cv::Exception); outcome is what the library does
\* otherwise ("ok", "fail" for a false return, "throw" for a cv::Exception);
\* a JPEG holds 8-bit samples and does not keep their values
imencode(ext, image, outcome) ==
  IF empty(image) \/ image.channels \notin {1, 3, 4}
  THEN [result |-> "throw", data |-> EmptyData]
  ELSE IF outcome # "ok"
  THEN [result |-> outcome, data |-> EmptyData]
  ELSE IF ext = ".jpg"
  THEN [result |-> "ok",
        data |-> Data("jpeg",
                      [image EXCEPT !.depth = 8,
                                    !.pix = [i \in 1..Len(image.pix) |->
                                              [c \in 1..image.channels |-> Unspecified]]],
                      NoDesc, <<>>)]
  ELSE [result |-> "ok", data |-> Data("png", image, NoDesc, <<>>)]

\* 8-bit view of a sample, as the decoders give it without IMREAD_ANYDEPTH
To8(v, depth) == IF v = Unspecified THEN v ELSE IF depth = 16 THEN v \div 256 ELSE v

\* luma of a BGR pixel
Gray(b, g, r) ==
  IF Unspecified \in {b, g, r} THEN Unspecified
  ELSE (114 * b + 587 * g + 299 * r + 500) \div 1000

\* cv::imdecode(buf, flags): the generic decoder knows a container by its
\* signature bytes; anything else (QOI included) gives an empty matrix
imdecode(data, flags) ==
  IF data.container \notin {"png", "jpeg", "bmp"} THEN EmptyMat
  ELSE LET m == data.mat
           p8(i) == [c \in 1..m.channels |-> To8(m.pix[i][c], m.depth)]
       IN IF flags = "IMREAD_UNCHANGED" THEN m
          ELSE IF flags = "IMREAD_GRAYSCALE"
          THEN [m EXCEPT !.channels = 1, !.depth = 8,
                         !.pix = [i \in 1..Len(m.pix) |->
                                   IF m.channels = 1 THEN <<p8(i)[1]>>
                                   ELSE <<Gray(p8(i)[1], p8(i)[2], p8(i)[3])>>]]
          ELSE [m EXCEPT !.channels = 3, !.depth = 8,
                         !.pix = [i \in 1..Len(m.pix) |->
                                   IF m.channels = 1 THEN <<p8(i)[1], p8(i)[1], p8(i)[1]>>
                                   ELSE <<p8(i)[1], p8(i)[2], p8(i)[3]>>]]

\* OpenCV's conversion among RGB/BGR/RGBA/BGRA: 3 or 4 channels in (else a
\* cv::Exception, as for an empty image), dcn channels out, first and third
\* swapped when swapBlue; a new alpha channel is the depth's maximum
cvtColorBGR2BGR(image, dcn, swapBlue) ==
  IF empty(image) \/ image.channels \notin {3, 4}
  THEN [threw |-> TRUE, image |-> image]
  ELSE LET alpha(p) == IF image.channels = 4 THEN p[4] ELSE MaxVal(image.depth)
           base(p)  == IF swapBlue THEN <<p[3], p[2], p[1]>> ELSE <<p[1], p[2], p[3]>>
           out(p)   == IF dcn = 4 THEN base(p) \o <<alpha(p)>> ELSE base(p)
       IN [threw |-> FALSE,
           image |-> [image EXCEPT !.channels = dcn,
                                   !.pix = [i \in 1..Len(image.pix) |-> out(image.pix[i])]]]

\* cv::cvtColor(src, dst, code) for the codes the subscriber uses
cvtColor(image, code) ==
  IF code \in {"CV_RGB2BGR", "CV_BGR2RGB"} THEN cvtColorBGR2BGR(image, 3, TRUE)
  ELSE IF code \in {"CV_BGR2RGBA", "CV_RGB2BGRA", "CV_RGBA2BGRA"}
  THEN cvtColorBGR2BGR(image, 4, TRUE)
  ELSE cvtColorBGR2BGR(image, 4, FALSE)

-----------------------------------------------------------------------------
(* qoixx::qoi *)

\* qoixx::qoi::encode(ptr, size, desc): the stream holds the descriptor and
\* the size bytes it was given
qoi_encode(bytes, size, desc) == Data("qoi", EmptyMat, desc, SubSeq(bytes, 1, size))

\* qoixx::qoi::decode<cv::Mat>(data): the bytes and the descriptor of the
\* stream; std::invalid_argument for anything that is no QOI stream
qoi_decode(data) ==
  IF data.container # "qoi"
  THEN [threw |-> TRUE, img_pixels |-> <<>>, header |-> NoDesc]
  ELSE [threw |-> FALSE, img_pixels |-> data.bytes, header |-> data.desc]

\* img_pixels.reshape(channels, height) of the size x 1 byte matrix
reshape(img_pixels, channels, height) ==
  LET n == Len(img_pixels) \div channels
  IN [channels |-> channels, depth |-> 8, rows |-> height, cols |-> n \div height,
      pix |-> [i \in 1..n |-> [c \in 1..channels |-> img_pixels[(i - 1) * channels + c]]]]

-----------------------------------------------------------------------------
(* CompressedPublisher *)

Formats == {"jpeg", "png", "qoi", "tiff"}

\* the values the reconfigure server hands to CompressedPublisher::configCb
Configs ==
  [format : Formats, jpeg_quality : {80, 95}, jpeg_progressive : {FALSE},
   jpeg_optimize : {FALSE}, jpeg_restart_interval : {0}, png_level : {9}]

\* what the libraries and the hardware may do during one publish() call:
\* the outcome of the encode step, whether an undefined operation faults, and
\* the bytes found past the end of a buffer read beyond its size
Envs(garbageLen) ==
  [outcome : {"ok", "fail", "throw"}, fault : BOOLEAN,
   garbage : [1..garbageLen -> {0, 255}]]

\* the codec chosen from the three tests of config_.format
EncodingFormat(f1, f2, f3) ==
  IF f3 = "qoi" THEN "QOI"
  ELSE IF f2 = "png" THEN "PNG"
  ELSE IF f1 = "jpeg" THEN "JPEG"
  ELSE "UNDEFINED"

\* a publish() call that has done nothing yet beyond copying the encoding
\* into compressed.format
Compressed(message) ==
  [format |-> message.encoding, params |-> <<>>, target |-> "", normThrew |-> FALSE,
   encodeCalled |-> FALSE, encodeResult |-> "none", handed |-> EmptyMat,
   desc |-> NoDesc, size |-> 0, sent |-> <<>>, errors |-> <<>>, returned |-> TRUE]

\* formatTag without the space that ends it
formatTag_trimmed(encodingFormat) ==
  IF encodingFormat = "JPEG" THEN "; jpeg compressed"
  ELSE IF encodingFormat = "PNG" THEN "; png compressed"
  ELSE "; qoi compressed"

\* what each case appends to compressed.format before it checks the input
formatTag(encodingFormat) ==
  IF encodingFormat = "JPEG" THEN "; jpeg compressed "
  ELSE IF encodingFormat = "PNG" THEN "; png compressed "
  ELSE "; qoi compressed "

\* jpegTargetFormat keeping the depth of the source, as the PNG case does
jpegTargetFormat_depth(encoding) ==
  IF isColor(encoding) THEN "bgr" \o ToString(bitDepth(encoding)) ELSE ""

\* targetFormat of the JPEG case
jpegTargetFormat(encoding) == IF isColor(encoding) THEN "bgr8" ELSE ""

\* targetFormat of the PNG and the QOI case
bgrTargetFormat(encoding) ==
  IF isColor(encoding) THEN "bgr" \o ToString(bitDepth(encoding)) ELSE ""

\* qoiChannelsOk with an upper limit only
qoiChannelsOk_upTo4(channels) == channels <= 4

\* the QOI case's check of the input format
qoiChannelsOk(channels) == channels = 3 \/ channels = 4

\* publish_fn(compressed)
publish_fn(format, data) == <<[format |-> format, data |-> data]>>

publishJPEG(message, cfg, env) ==
  LET params == <<"IMWRITE_JPEG_QUALITY", cfg.jpeg_quality,
                  "IMWRITE_JPEG_PROGRESSIVE", IF cfg.jpeg_progressive THEN 1 ELSE 0,
                  "IMWRITE_JPEG_OPTIMIZE", IF cfg.jpeg_optimize THEN 1 ELSE 0,
                  "IMWRITE_JPEG_RST_INTERVAL", cfg.jpeg_restart_interval, 0>>
      format0 == message.encoding \o formatTag("JPEG")
      targetFormat == jpegTargetFormat(message.encoding)
      format == format0 \o targetFormat
      cv_ptr == toCvShare(message, targetFormat)
      enc == imencode(".jpg", cv_ptr.image, env.outcome)
      c0 == [Compressed(message) EXCEPT !.params = params]
  IN IF bitDepth(message.encoding) \in {8, 16}
     THEN IF cv_ptr.threw
          THEN [c0 EXCEPT !.format = format, !.target = targetFormat,
                          !.normThrew = TRUE, !.errors = <<cv_ptr.what>>,
                          !.sent = publish_fn(format, EmptyData)]
          ELSE [c0 EXCEPT !.format = format, !.target = targetFormat,
                          !.encodeCalled = TRUE, !.encodeResult = enc.result,
                          !.handed = cv_ptr.image,
                          !.errors = IF enc.result = "ok" THEN <<>>
                                     ELSE IF enc.result = "fail"
                                     THEN <<"cv::imencode (jpeg) failed on input image">>
                                     ELSE <<"cv::Exception">>,
                          !.sent = publish_fn(format, enc.data)]
     ELSE [c0 EXCEPT !.format = format0,
                     !.errors = <<"JPEG compression requires 8/16-bit color format">>]

publishPNG(message, cfg, env) ==
  LET params == <<"IMWRITE_PNG_COMPRESSION", cfg.png_level, 0>>
      format0 == message.encoding \o formatTag("PNG")
      targetFormat == bgrTargetFormat(message.encoding)
      format == format0 \o targetFormat
      cv_ptr == toCvShare(message, targetFormat)
      enc == imencode(".png", cv_ptr.image, env.outcome)
      c0 == [Compressed(message) EXCEPT !.params = params]
  IN IF bitDepth(message.encoding) \in {8, 16}
     THEN IF cv_ptr.threw
          THEN [c0 EXCEPT !.format = format, !.target = targetFormat,
                          !.normThrew = TRUE, !.errors = <<cv_ptr.what>>]
          ELSE [c0 EXCEPT !.format = format, !.target = targetFormat,
                          !.encodeCalled = TRUE, !.encodeResult = enc.result,
                          !.handed = cv_ptr.image,
                          !.errors = IF enc.result = "ok" THEN <<>>
                                     ELSE IF enc.result = "fail"
                                     THEN <<"cv::imencode (png) failed on input image">>
                                     ELSE <<"cv::Exception">>,
                          !.sent = IF enc.result = "throw" THEN <<>>
                                   ELSE publish_fn(format, enc.data)]
     ELSE [c0 EXCEPT !.format = format0,
                     !.errors = <<"PNG compression requires 8/16-bit encoded color format">>]

\* bytes the QOI encoder is told to read beyond the buffer of the image
Overread(message, channels) ==
  LET cv_ptr == toCvShare(message, bgrTargetFormat(message.encoding))
      size == message.width * message.height * channels
  IN IF qoiChannelsOk(channels) /\ ~cv_ptr.threw /\ size > Len(MatBytes(cv_ptr.image))
     THEN size - Len(MatBytes(cv_ptr.image)) ELSE 0

\* case QOI, once message.step / message.width has given channels
publishQOIChannels(message, channels, env) ==
  LET format0 == message.encoding \o formatTag("QOI")
      targetFormat == bgrTargetFormat(message.encoding)
      format == format0 \o targetFormat
      cv_ptr == toCvShare(message, targetFormat)
      mat == cv_ptr.image
      qoi_desc == [width |-> message.width, height |-> message.height,
                   channels |-> channels]
      size == qoi_desc.width * qoi_desc.height * qoi_desc.channels
      buffer == MatBytes(mat)
      c0 == Compressed(message)
      c1 == [c0 EXCEPT !.format = format, !.target = targetFormat,
                       !.encodeCalled = TRUE, !.handed = mat, !.desc = qoi_desc,
                       !.size = size]
  IN IF qoiChannelsOk(channels)
     THEN IF cv_ptr.threw
          THEN [c0 EXCEPT !.format = format, !.target = targetFormat,
                          !.normThrew = TRUE, !.errors = <<cv_ptr.what>>]
          ELSE IF size > Len(buffer) /\ env.fault
          THEN [c1 EXCEPT !.encodeResult = "fault", !.returned = FALSE]
          ELSE IF env.outcome = "throw"
          THEN [c1 EXCEPT !.encodeResult = "throw",
                          !.errors = <<"std::invalid_argument">>]
          ELSE [c1 EXCEPT !.encodeResult = "ok",
                          !.sent = publish_fn(format,
                                     qoi_encode(buffer \o env.garbage, size, qoi_desc))]
     ELSE [c0 EXCEPT !.format = format0,
                     !.errors = <<"qoi compression requires 3 or 4 channels">>]

\* case QOI: message.step / message.width is a division of uint32_t, and a
\* division by zero either traps or (where the divide instruction does not
\* trap) gives 0
publishQOI(message, env) ==
  IF message.width = 0
  THEN IF env.fault
       THEN [Compressed(message) EXCEPT !.format = message.encoding \o formatTag("QOI"),
                                        !.returned = FALSE]
       ELSE publishQOIChannels(message, 0, env)
  ELSE publishQOIChannels(message, message.step \div message.width, env)

\* CompressedPublisher::publish from the switch on: encodingFormat was
\* chosen before, cfg is config_ as the case reads it
publish(message, encodingFormat, cfg, env) ==
  IF encodingFormat = "JPEG" THEN publishJPEG(message, cfg, env)
  ELSE IF encodingFormat = "PNG" THEN publishPNG(message, cfg, env)
  ELSE IF encodingFormat = "QOI" THEN publishQOI(message, env)
  ELSE [Compressed(message) EXCEPT !.errors = <<"Unknown compression type">>]

-----------------------------------------------------------------------------
(* CompressedSubscriber *)

Modes == {"gray", "color", "unchanged"}

\* imdecode_flag_ as CompressedSubscriber::configCb sets it from config.mode
ImdecodeFlag(mode) ==
  IF mode = "gray" THEN "IMREAD_GRAYSCALE"
  ELSE IF mode = "color" THEN "IMREAD_COLOR"
  ELSE "IMREAD_UNCHANGED"

\* cv_ptr->toImageMsg()
toImageMsg(encoding, image) ==
  [encoding |-> encoding, width |-> image.cols, height |-> image.rows,
   step |-> image.cols * image.channels * (image.depth \div 8), data |-> image.pix]

\* an internalCallback() call with nothing decoded yet
CvImage ==
  [decoder |-> "none", path |-> "none", encoding |-> "", image |-> EmptyMat,
   errors |-> <<>>, delivered |-> <<>>, returned |-> TRUE]

\* the end of internalCallback: the image goes to user_cb unless it has no
\* rows or no columns
Deliver(cv) ==
  IF cv.image.rows > 0 /\ cv.image.cols > 0
  THEN [cv EXCEPT !.delivered = <<toImageMsg(cv.encoding, cv.image)>>]
  ELSE cv

\* the branch of a "qoi" compression_format
decodeQOI(message) ==
  LET dec == qoi_decode(message.data)
      header == dec.header
      encoding == IF header.channels = 4 THEN "rgba8" ELSE "rgb8"
      image == reshape(dec.img_pixels, header.channels, header.height)
      code == IF header.channels = 3 THEN "CV_RGB2BGR" ELSE "CV_RGBA2BGRA"
      conv == cvtColor(image, code)
      cv == [CvImage EXCEPT !.decoder = "qoi", !.path = "qoi"]
  IN IF dec.threw
     THEN [cv EXCEPT !.errors = <<"std::invalid_argument">>]
     ELSE IF header.channels \notin {3, 4}
     THEN [cv EXCEPT !.encoding = encoding, !.image = image]
     ELSE IF conv.threw
     THEN [cv EXCEPT !.encoding = encoding, !.image = image,
                     !.errors = <<"cv::Exception">>]
     ELSE [cv EXCEPT !.encoding = encoding, !.image = conv.image]

\* the conversion code of a colour image_encoding, by whether the header
\* says "compressed bgr"; "" when no test of the branch matches
RevertCode(image_encoding, compressed_bgr_image) ==
  IF compressed_bgr_image
  THEN IF image_encoding \in {"rgb8", "rgb16"} THEN "CV_BGR2RGB"
       ELSE IF image_encoding \in {"rgba8", "rgba16"} THEN "CV_BGR2RGBA"
       ELSE IF image_encoding \in {"bgra8", "bgra16"} THEN "CV_BGR2BGRA"
       ELSE ""
  ELSE IF image_encoding \in {"bgr8", "bgr16"} THEN "CV_RGB2BGR"
       ELSE IF image_encoding \in {"bgra8", "bgra16"} THEN "CV_RGB2BGRA"
       ELSE IF image_encoding \in {"rgba8", "rgba16"} THEN "CV_RGB2RGBA"
       ELSE ""

\* the branch of every other compression_format
decodeImdecode(message, split_pos, image_encoding, flag) ==
  LET image == imdecode(message.data, flag)
      cv == [CvImage EXCEPT !.decoder = "imdecode", !.image = image]
      compressed_encoding == substr(message.format, split_pos, npos).str
      compressed_bgr_image == find(compressed_encoding, "compressed bgr") # npos
      code == RevertCode(image_encoding, compressed_bgr_image)
      conv == cvtColor(image, code)
  IN IF split_pos = npos
     THEN IF image.channels = 1
          THEN [cv EXCEPT !.path = "legacy", !.encoding = "mono8"]
          ELSE IF image.channels = 3
          THEN [cv EXCEPT !.path = "legacy", !.encoding = "bgr8"]
          ELSE [cv EXCEPT !.path = "legacy",
                          !.errors = <<"Unsupported number of channels">>]
     ELSE IF ~isColor(image_encoding) \/ code = ""
     THEN [cv EXCEPT !.path = "tagged", !.encoding = image_encoding]
     ELSE IF conv.threw
     THEN [cv EXCEPT !.path = "tagged", !.encoding = image_encoding,
                     !.errors = <<"cv::Exception">>]
     ELSE [cv EXCEPT !.path = "tagged", !.encoding = image_encoding,
                     !.image = conv.image]

\* CompressedSubscriber::internalCallback: the std::out_of_range of substr
\* is neither a std::invalid_argument nor a cv::Exception, so it leaves the
\* function
internalCallback(message, flag) ==
  LET split_pos == find(message.format, ";")
      image_encoding == substr(message.format, 0, split_pos)
      compression_format == substr(message.format, split_pos + 2, 3)
  IN IF compression_format.threw
     THEN [CvImage EXCEPT !.returned = FALSE]
     ELSE IF compression_format.str = "qoi"
     THEN Deliver(decodeQOI(message))
     ELSE Deliver(decodeImdecode(message, split_pos, image_encoding.str, flag))

-----------------------------------------------------------------------------
(* The state and its transitions *)

NoCompressed == [format |-> "", data |-> EmptyData]

\* f1, f2, f3: config_.format as the three tests found it; snapshots: the
\* values config_ held during the call that agree with all the call has read
NoReads == [f1 |-> "", f2 |-> "", f3 |-> "", snapshots |-> {}]

NoPub ==
  [called |-> FALSE, message |-> NoFrame, codec |-> "", snapshots |-> {},
   r |-> Compressed(NoFrame)]

NoSub == [called |-> FALSE, message |-> NoCompressed, flag |-> "", r |-> CvImage]

\* advertiseImpl and subscribeImpl register configCb, and the reconfigure
\* server calls it at once with the configuration it starts from
Init ==
  /\ config_ \in Configs
  /\ imdecode_flag_ \in {ImdecodeFlag(m) : m \in Modes}
  /\ pub = NoPub
  /\ sub = NoSub
  /\ alive = TRUE
  /\ pc = "idle"
  /\ frame = NoFrame
  /\ reads = NoReads
  /\ ver = 0

\* no message is being followed through the pipeline
Idle == alive /\ pc = "idle" /\ ~pub.called /\ ~sub.called

\* length of the read past the buffer that publish() makes for a message
GarbageLen(message, encodingFormat) ==
  IF encodingFormat = "QOI" /\ message.width > 0
  THEN Overread(message, message.step \div message.width)
  ELSE 0

\* CompressedPublisher::configCb, between two messages
CompressedPublisher_configCb ==
  /\ Idle
  /\ \E config \in Configs : config_' = config
  /\ UNCHANGED <<imdecode_flag_, pub, sub, alive, pc, frame, reads, ver>>

\* CompressedSubscriber::configCb, between two messages
CompressedSubscriber_configCb ==
  /\ Idle
  /\ \E mode \in Modes : imdecode_flag_' = ImdecodeFlag(mode)
  /\ UNCHANGED <<config_, pub, sub, alive, pc, frame, reads, ver>>

\* CompressedPublisher::publish on a frame of the frame source, run with no
\* configCb during it
Publish ==
  /\ Idle
  /\ \E message \in Frames :
       LET encodingFormat ==
             EncodingFormat(config_.format, config_.format, config_.format)
       IN \E env \in Envs(GarbageLen(message, encodingFormat)) :
            LET r == publish(message, encodingFormat, config_, env)
            IN /\ pub' = [called |-> TRUE, message |-> message,
                          codec |-> encodingFormat, snapshots |-> {config_}, r |-> r]
               /\ alive' = r.returned
  /\ UNCHANGED <<config_, imdecode_flag_, sub, pc, frame, reads, ver>>

\* CompressedSubscriber::internalCallback on the message publish() sent
Receive ==
  /\ alive /\ pc = "idle" /\ pub.called /\ ~sub.called
  /\ pub.r.sent # <<>>
  /\ LET r == internalCallback(pub.r.sent[1], imdecode_flag_)
     IN /\ sub' = [called |-> TRUE, message |-> pub.r.sent[1],
                   flag |-> imdecode_flag_, r |-> r]
        /\ alive' = r.returned
  /\ UNCHANGED <<config_, imdecode_flag_, pub, pc, frame, reads, ver>>

\* a 1 x 1 8-bit matrix of the given channel count
ProbeMat(channels) ==
  [channels |-> channels, depth |-> 8, rows |-> 1, cols |-> 1,
   pix |-> <<[c \in 1..channels |-> IF c = 1 THEN 0 ELSE 255]>>]

\* headers of messages from other senders (older senders, other tools)
ForeignFormats ==
  {"", ";", "rgb8;", "mono8", "bgr8", "xqoi", "a;bqoi", "rgb8; bmp compressed",
   "rgb8; tiff compressed bgr8", "rgb8; png compressed bgr8",
   "mono8; png compressed ", "bgr8; qoi compressed bgr8",
   "rgba8; jpeg compressed bgr8"}

\* their payloads
ForeignData ==
  {EmptyData, Data("garbage", EmptyMat, NoDesc, <<>>)}
  \cup {Data(c, ProbeMat(n), NoDesc, <<>>) : c \in {"png", "bmp"}, n \in {1, 3, 4}}
  \cup {Data("qoi", EmptyMat, [width |-> 1, height |-> 1, channels |-> 3],
             <<0, 128, 255>>)}

\* CompressedSubscriber::internalCallback on a message of another sender
ReceiveForeign ==
  /\ Idle
  /\ \E format \in ForeignFormats, data \in ForeignData :
       LET message == [format |-> format, data |-> data]
           r == internalCallback(message, imdecode_flag_)
       IN /\ sub' = [called |-> TRUE, message |-> message,
                     flag |-> imdecode_flag_, r |-> r]
          /\ alive' = r.returned
  /\ UNCHANGED <<config_, imdecode_flag_, pub, pc, frame, reads, ver>>

\* both handlers keep nothing of a message once they have returned: the
\* record of the last message is dropped before the next one
NextMessage ==
  /\ alive /\ pc = "idle" /\ (pub.called \/ sub.called)
  /\ pub' = NoPub
  /\ sub' = NoSub
  /\ UNCHANGED <<config_, imdecode_flag_, alive, pc, frame, reads, ver>>

Next ==
  \/ CompressedPublisher_configCb
  \/ CompressedSubscriber_configCb
  \/ Publish
  \/ Receive
  \/ ReceiveForeign
  \/ NextMessage

Spec == Init /\ [][Next]_vars

-----------------------------------------------------------------------------
(* publish() with configCb on another thread: neither takes a lock, so a    *)
(* configCb may run between any two reads that publish() makes of config_   *)

\* the frames published while reconfigurations are followed
ProbeFrames ==
  {m \in Frames : m.width = 1 /\ \A c \in 1..numChannels(m.encoding) : m.data[1][c] = 0}

\* a value of config_ gives the tests made so far the results they had
AgreesOnFormat(config, rd, at) ==
  /\ (config.format = "jpeg") = (rd.f1 = "jpeg")
  /\ at \in {"line96", "switch"} => (config.format = "png") = (rd.f2 = "png")
  /\ at = "switch" => (config.format = "qoi") = (rd.f3 = "qoi")

\* a value of config_ holds what a case of the switch reads from config_
AgreesOnParams(config, encodingFormat, cfg) ==
  IF encodingFormat = "JPEG"
  THEN /\ config.jpeg_quality = cfg.jpeg_quality
       /\ config.jpeg_progressive = cfg.jpeg_progressive
       /\ config.jpeg_optimize = cfg.jpeg_optimize
       /\ config.jpeg_restart_interval = cfg.jpeg_restart_interval
  ELSE IF encodingFormat = "PNG" THEN config.png_level = cfg.png_level
  ELSE IF encodingFormat = "QOI" THEN TRUE
  ELSE config.format = cfg.format

\* publish() is entered and makes its first test of config_.format
Enter ==
  /\ alive /\ pc = "idle"
  /\ \E message \in ProbeFrames : frame' = message
  /\ reads' = [NoReads EXCEPT !.f1 = config_.format, !.snapshots = {config_}]
  /\ pc' = "line94"
  /\ pub' = NoPub
  /\ UNCHANGED <<config_, imdecode_flag_, sub, alive, ver>>

\* the second test of config_.format
Read94 ==
  /\ alive /\ pc = "line94"
  /\ LET rd == [reads EXCEPT !.f2 = config_.format]
     IN reads' = [rd EXCEPT !.snapshots =
                    {c \in reads.snapshots : AgreesOnFormat(c, rd, "line96")}]
  /\ pc' = "line96"
  /\ UNCHANGED <<config_, imdecode_flag_, pub, sub, alive, frame, ver>>

\* the third test of config_.format
Read96 ==
  /\ alive /\ pc = "line96"
  /\ LET rd == [reads EXCEPT !.f3 = config_.format]
     IN reads' = [rd EXCEPT !.snapshots =
                    {c \in reads.snapshots : AgreesOnFormat(c, rd, "switch")}]
  /\ pc' = "switch"
  /\ UNCHANGED <<config_, imdecode_flag_, pub, sub, alive, frame, ver>>

\* the switch: the JPEG and PNG cases read their parameters from config_,
\* the default case reads config_.format for its message, the QOI case
\* reads nothing
Dispatch ==
  /\ alive /\ pc = "switch"
  /\ LET encodingFormat == EncodingFormat(reads.f1, reads.f2, reads.f3)
     IN \E env \in Envs(GarbageLen(frame, encodingFormat)) :
          LET r == publish(frame, encodingFormat, config_, env)
          IN /\ pub' = [called |-> TRUE, message |-> frame, codec |-> encodingFormat,
                        snapshots |->
                          {c \in reads.snapshots :
                             AgreesOnParams(c, encodingFormat, config_)},
                        r |-> r]
             /\ alive' = r.returned
  /\ pc' = "idle"
  /\ frame' = NoFrame
  /\ reads' = NoReads
  /\ UNCHANGED <<config_, imdecode_flag_, sub, ver>>

\* CompressedPublisher::configCb on the reconfigure server's thread
ConcurrentConfigCb ==
  /\ alive /\ ver < MaxVer
  /\ \E config \in Configs :
       /\ config_' = config
       /\ reads' = IF pc # "idle" /\ AgreesOnFormat(config, reads, pc)
                   THEN [reads EXCEPT !.snapshots = @ \cup {config}]
                   ELSE reads
  /\ ver' = ver + 1
  /\ UNCHANGED <<imdecode_flag_, pub, sub, alive, pc, frame>>

NextConc ==
  \/ Enter
  \/ Read94
  \/ Read96
  \/ Dispatch
  \/ ConcurrentConfigCb

SpecConc == Init /\ [][NextConc]_vars

-----------------------------------------------------------------------------
(* Properties *)

\* the image publish() was given and the image internalCallback() delivered
Original == pub.message

Delivered == sub.r.delivered[1]

\* a message went through publish() with an encode step that succeeded and
\* then through internalCallback()
RoundTrip(codec, encodings) ==
  /\ pub.called /\ sub.called
  /\ pub.codec = codec
  /\ Original.encoding \in encodings
  /\ pub.r.encodeResult = "ok"

SameImage ==
  /\ Len(sub.r.delivered) = 1
  /\ Delivered.encoding = Original.encoding
  /\ Delivered.width = Original.width
  /\ Delivered.height = Original.height
  /\ Delivered.data = Original.data

\* C1: an image of one of the ten 8- and 16-bit mono and colour encodings,
\* published with the PNG codec and received in decode mode 'unchanged',
\* is delivered with the same encoding, width, height and samples, alpha
\* included.
C1_PngRoundTripLossless ==
  (RoundTrip("PNG", ColorEncodings \cup {"mono8", "mono16"})
     /\ sub.flag = "IMREAD_UNCHANGED")
  => SameImage

\* C2: an image of encoding rgb8, bgr8, rgba8 or bgra8, published with the
\* QOI codec and received, is delivered with the original encoding name and
\* the original samples in every channel.
C2_QoiRoundTripRestoresLayout ==
  RoundTrip("QOI", {"rgb8", "bgr8", "rgba8", "bgra8"})
  => /\ Len(sub.r.delivered) = 1
     /\ Delivered.encoding = Original.encoding
     /\ Delivered.data = Original.data

\* the codec word of a header
CodecWord(codec) ==
  IF codec = "JPEG" THEN "jpeg" ELSE IF codec = "PNG" THEN "png" ELSE "qoi"

\* C3 as stated: the published header of a mono input is the encoding, "; "
\* and "<codec> compressed" with nothing after it; the header of a colour
\* input is that string, one space and the target encoding.
C3_HeaderAsDocumented ==
  (pub.called /\ pub.r.sent # <<>>)
  => pub.r.sent[1].format =
       Original.encoding \o "; " \o CodecWord(pub.codec) \o " compressed"
       \o (IF isColor(Original.encoding) THEN " " \o pub.r.target ELSE "")

\* C3 as amended: every published header is the encoding, "; ",
\* "<codec> compressed" and one space, followed by the target encoding for
\* a colour input and by nothing for any other input; the target encoding
\* is empty exactly for the inputs that are not colour.
C3_HeaderLayout ==
  (pub.called /\ pub.r.sent # <<>>)
  => /\ pub.r.sent[1].format =
          Original.encoding \o "; " \o CodecWord(pub.codec) \o " compressed "
          \o pub.r.target
     /\ (pub.r.target = "") = ~isColor(Original.encoding)

C3_Witness ==
  /\ pub.called /\ pub.codec = "PNG" /\ Original.encoding = "mono16"
  /\ Len(pub.r.sent) = 1
  /\ pub.r.sent[1].format = "mono16; png compressed "

\* the word that follows the first "; " of a header
CodecToken(format) ==
  LET rest == substr(format, find(format, "; ") + 2, npos).str
      sp == find(rest, " ")
  IN IF sp = npos THEN rest ELSE SubSeq(rest, 1, sp)

\* C4: a header with no "; " in it takes the legacy path: the payload goes
\* to the generic decoder, never to the QOI decoder, and the delivered
\* encoding follows from the decoded channel count alone (1 gives mono8,
\* 3 gives bgr8).  Stated of the calls that return; C7 is about the others.
C4_LegacyFallback ==
  (sub.called /\ sub.r.returned /\ find(sub.message.format, "; ") = npos)
  => /\ sub.r.decoder = "imdecode"
     /\ sub.r.path = "legacy"
     /\ (sub.r.image.channels = 1 => sub.r.encoding = "mono8")
     /\ (sub.r.image.channels = 3 => sub.r.encoding = "bgr8")

\* C5: a header with the separator whose codec token is none of "jpeg",
\* "png" and "qoi" ends the message with an unknown-codec error: no image
\* is delivered and no decoder is given the payload.
C5_UnknownCodecRejected ==
  (sub.called /\ find(sub.message.format, "; ") # npos
     /\ CodecToken(sub.message.format) \notin {"jpeg", "png", "qoi"})
  => /\ sub.r.decoder = "none"
     /\ sub.r.delivered = <<>>
     /\ sub.r.errors # <<>>

\* C6: when the colour normalization throws or the encode step fails
\* (returns failure or throws), publish_fn is not called, for each of
\* JPEG, PNG and QOI.
C6_FailedEncodeEmitsNothing ==
  (pub.called /\ pub.codec \in {"JPEG", "PNG", "QOI"}
     /\ (pub.r.normThrew \/ pub.r.encodeResult \in {"fail", "throw"}))
  => pub.r.sent = <<>>

\* C7: publish and internalCallback return normally to their caller for
\* every message, so the next message is still processed.
C7_NoErrorIsFatal ==
  /\ alive
  /\ pub.called => pub.r.returned
  /\ sub.called => sub.r.returned

\* C8: what publish() uses of config_ for one message (the codec chosen and
\* the parameters of that codec) is what a single value of config_ gives,
\* also when configCb runs during publish().
C8_ConsistentSnapshot ==
  pub.called => pub.snapshots # {}

\* the image the encode step is given for a colour frame when only the
\* channel order is changed to BGR
ReorderedBGR(message) ==
  [channels |-> 3, depth |-> bitDepth(message.encoding),
   rows |-> message.height, cols |-> message.width,
   pix |-> [i \in 1..Len(message.data) |->
             IF RedFirst(message.encoding)
             THEN <<message.data[i][3], message.data[i][2], message.data[i][1]>>
             ELSE <<message.data[i][1], message.data[i][2], message.data[i][3]>>]]

JpegColourEncoded ==
  /\ pub.called /\ pub.codec = "JPEG"
  /\ isColor(Original.encoding)
  /\ pub.r.encodeCalled

\* C9 as stated: with JPEG and a colour input of depth 8 or 16 the image
\* handed to the encode step has the depth of the source, and the target
\* encoding in the header has that depth too.
C9_JpegKeepsDepth ==
  JpegColourEncoded
  => /\ pub.r.handed.depth = bitDepth(Original.encoding)
     /\ pub.r.target = "bgr" \o ToString(bitDepth(Original.encoding))

\* C9 as amended: with JPEG and a colour input of depth 8 or 16 the image
\* handed to the encode step is the 8-bit BGR image of the source: blue,
\* green and red in that order, 16-bit samples rescaled to 8 bits, any
\* alpha dropped; the target encoding in the header is "bgr8".
C9_JpegNormalizesToBgr8 ==
  JpegColourEncoded
  => /\ pub.r.handed.depth = 8
     /\ pub.r.handed.channels = 3
     /\ pub.r.handed.pix =
          [i \in 1..Len(Original.data) |->
            [c \in 1..3 |-> Rescale(ReorderedBGR(Original).pix[i][c],
                                    bitDepth(Original.encoding), 8)]]
     /\ pub.r.target = "bgr8"
     /\ pub.r.sent[1].format = Original.encoding \o "; jpeg compressed bgr8"

C9_Witness ==
  /\ JpegColourEncoded
  /\ Original.encoding = "rgb16"
  /\ Original.data = <<<<65535, 0, 0>>>>
  /\ pub.r.handed.pix = <<<<0, 0, 255>>>>

\* message.step / message.width, where it is defined
QoiChannels == Original.step \div Original.width

Dropped == pub.r.sent = <<>> /\ pub.r.errors # <<>>

\* C10: publish() sends nothing and reports an error when QOI is selected
\* and step / width is neither 3 nor 4, when JPEG or PNG is selected and
\* the bit depth is neither 8 nor 16, and when the configured codec is not
\* recognized; with QOI, step / width 3 or 4 and an encode step that
\* completes, exactly one payload is sent.
C10_OutOfDomainDropped ==
  pub.called
  => /\ (pub.codec = "QOI" /\ Original.width > 0 /\ QoiChannels \notin {3, 4})
          => Dropped
     /\ (pub.codec \in {"JPEG", "PNG"} /\ bitDepth(Original.encoding) \notin {8, 16})
          => Dropped
     /\ pub.codec = "UNDEFINED" => Dropped
     /\ (pub.codec = "QOI" /\ Original.width > 0 /\ QoiChannels \in {3, 4}
           /\ pub.r.encodeResult = "ok")
          => Len(pub.r.sent) = 1

C10_Witness ==
  /\ pub.called /\ pub.codec = "QOI"
  /\ Original.encoding = "mono8" /\ Original.width = 1
  /\ pub.r.sent = <<>>
  /\ pub.r.errors = <<"qoi compression requires 3 or 4 channels">>

\* C11: whenever publish() calls the QOI encoder, the channel count of the
\* descriptor (message.step / message.width) is the channel count of the
\* normalized image handed to the encoder, and the byte count the encoder
\* is told to read (width * height * channels) is no more than the size of
\* that image's pixel buffer.
C11_QoiDescMatchesBuffer ==
  (pub.called /\ pub.codec = "QOI" /\ pub.r.encodeCalled)
  => /\ pub.r.desc.channels = pub.r.handed.channels
     /\ pub.r.size <= Len(MatBytes(pub.r.handed))

====
